---- MODULE Spec2Model ----
(***************************************************************************)
(* Model of the xraybackend control-plane core:                            *)
(*   - ConnectionLimiter (src/app/anti_sharing.py)                         *)
(*   - RateLimiter       (src/app/security.py)                             *)
(*   - XrayClient        (src/app/xray_client.py)                          *)
(* All coroutines run on one asyncio event loop: a task runs without       *)
(* interruption until it suspends at an await that really waits.           *)
(***************************************************************************)
EXTENDS Integers, Sequences, FiniteSets, TLC

\* ---------------------------------------------------------------- bounds
MaxConfigured == 2      \* largest configured max_connections that is tried
MaxLog == 2             \* warning events kept before the model stops logging
MaxRequests == 2        \* largest configured max_requests that is tried
MaxWindow == 2          \* largest configured window_seconds that is tried
MaxTime == 3            \* last reading of the monotonic clock
MaxCalls == 3           \* allow() calls made per identity
MaxConns == 2           \* connections the client creates
MaxRuns == 3            \* calls of _register_proto_definitions

Tasks == 1 .. 2
Uuids == {"A", "B"}
Identities == {"X", "Y"}
NoTask == 0

\* ------------------------------------------------------------- variables
VARIABLES
    running,          \* task the event loop is executing, or NoTask
    max_connections,  \* ConnectionLimiter.max_connections
    log_only,         \* ConnectionLimiter.log_only
    enabled,          \* ConnectionLimiter.enabled
    active,           \* ConnectionLimiter._active : uuid -> count (partial)
    lim_lock,         \* ConnectionLimiter._lock : holder or NoTask
    lpc,              \* position of each task inside a limiter coroutine
    l_op,             \* coroutine the task runs
    l_uuid,           \* its uuid argument
    warnings,         \* warning records handed to the logger
    sessions,         \* sessions admitted and not yet ended, per uuid
    watched,          \* the uuid whose calls an observer writes down
    lhist,            \* the last three completed calls for watched
    raced,            \* 1: a start_session(watched) that found one free slot
                      \*    returned while another one was waiting to run;
                      \* 2: the next call for watched, a start_session, returned
                      \*    as well (the two are the last entries of lhist)
    clock,            \* time.monotonic()
    max_requests,     \* RateLimiter.max_requests
    window_seconds,   \* RateLimiter.window_seconds
    hits,             \* RateLimiter._hits : identity -> timestamps (partial)
    rl_lock,          \* RateLimiter._lock : holder or NoTask
    rpc,              \* position of each task inside allow()
    r_identity,       \* its identity argument
    r_now,            \* local now
    r_window_start,   \* local window_start
    ncalls,           \* allow() calls made so far, per identity
    r_watched,        \* the identity whose calls an observer writes down
    rhist,            \* every completed allow(r_watched), in order
    r_raced,          \* some allow(r_watched) ran while another one waited
    channel,          \* XrayClient._channel : connection id, 0 for None
    stub,             \* connection the _add_user/_remove_user callables use
    conns,            \* every connection created: "open", "closing", "closed"
    endpoint,         \* what a readiness wait on an open connection meets
    remote,           \* users the proxy holds for the inbound tag
    cpc,              \* position of each task inside a client coroutine
    c_op,             \* coroutine the task runs
    c_uuid,           \* its uuid argument
    c_chan,           \* connection the task is waiting on
    c_stage,          \* "start": the wait belongs to start(); "ensure": not
    c_created,        \* the call created a connection
    c_callers,        \* client calls the callers keep in flight at once
    c_faults,         \* the error replies the proxy is able to give
    c_state,          \* "none": XrayClient(...) not called yet; "made": the
                      \* object exists; "failed": __init__ raised
    c_host,           \* host argument of the XrayClient(...) call, "none" before it
    c_target,         \* host part of XrayClient.target, "none" without object
    c_watched,        \* the uuid whose add/remove calls an observer writes down
    chist,            \* the last two completed client calls
    req,              \* the inbound HTTP call each handler task is serving
    last,             \* the two inbound calls answered last
    pool,             \* descriptor_pool.Default(): names of the files added,
                      \* in the order they were added
    s_pc,             \* position inside _register_proto_definitions
    s_error,          \* what a call of _register_proto_definitions raised
    s_before          \* the pool as each call so far found it

limVars == <<max_connections, log_only, enabled, active, lim_lock, lpc, l_op,
             l_uuid, warnings, sessions, watched, lhist, raced>>

rateVars == <<clock, max_requests, window_seconds, hits, rl_lock, rpc,
              r_identity, r_now, r_window_start, ncalls, r_watched, rhist, r_raced>>

clientVars == <<channel, stub, conns, endpoint, remote, cpc, c_op, c_uuid,
                c_chan, c_stage, c_created, c_callers, c_faults, c_state, c_host, c_target, c_watched, chist>>

reqVars == <<req, last>>

poolVars == <<pool, s_pc, s_error, s_before>>

vars == <<running, limVars, rateVars, clientVars, reqVars, poolVars>>

\* --------------------------------------------------------------- helpers
Max(a, b) == IF a >= b THEN a ELSE b

\* dict.get(key, default)
Get(d, k, default) == IF k \in DOMAIN d THEN d[k] ELSE default

\* d[k] = v
Put(d, k, v) == [x \in (DOMAIN d) \cup {k} |-> IF x = k THEN v ELSE d[x]]

\* d.pop(k, None)
Pop(d, k) == [x \in (DOMAIN d) \ {k} |-> d[x]]

\* the last n elements of s after appending e
Remember(s, e, n) ==
    LET a == Append(s, e)
    IN IF Len(a) > n THEN Tail(a) ELSE a

\* ------------------------------------------------- ConnectionLimiter: code
\* ConnectionLimiter.__init__
LimiterInitMutant(cfg, lo) ==
    /\ max_connections = Max(0, cfg)
    /\ log_only = lo
    /\ enabled = (Max(0, cfg) >= 0)
    /\ active = << >>
    /\ lim_lock = NoTask
LimiterInit(cfg, lo) ==
    /\ max_connections = Max(0, cfg)
    /\ log_only = lo
    /\ enabled = (Max(0, cfg) > 0)
    /\ active = << >>
    /\ lim_lock = NoTask

\* the admission test of start_session
LimitReachedMutant(current, limit) == current > limit
LimitReached(current, limit) == current >= limit

\* the removal test of end_session
LastSessionMutant(current) == current < 1
LastSession(current) == current <= 1

\* task slots are interchangeable: a new call takes the lowest free one
FreeSlot(t) ==
    /\ lpc[t] = "idle"
    /\ \A o \in Tasks : o < t => lpc[o] # "idle"

\* start_session(u) calls that were made and have not returned yet
StartsInFlight(u) ==
    Cardinality({o \in Tasks : l_op[o] = "start_session" /\ l_uuid[o] = u})

\* a caller creates the coroutine start_session(u); it has not run yet.
\* The callers never ask for more than MaxConfigured + 1 sessions of one uuid.
CallStartSession(t, u) ==
    /\ FreeSlot(t)
    /\ sessions[u] + StartsInFlight(u) <= MaxConfigured
    /\ lpc' = [lpc EXCEPT ![t] = "pending"]
    /\ l_op' = [l_op EXCEPT ![t] = "start_session"]
    /\ l_uuid' = [l_uuid EXCEPT ![t] = u]
    /\ UNCHANGED <<rateVars, clientVars, running, max_connections, log_only, enabled, active,
                   lim_lock, warnings, sessions, watched, lhist, raced>>

\* a caller creates the coroutine end_session(u)
CallEndSession(t, u) ==
    /\ FreeSlot(t)
    /\ lpc' = [lpc EXCEPT ![t] = "pending"]
    /\ l_op' = [l_op EXCEPT ![t] = "end_session"]
    /\ l_uuid' = [l_uuid EXCEPT ![t] = u]
    /\ UNCHANGED <<rateVars, clientVars, running, max_connections, log_only, enabled, active,
                   lim_lock, warnings, sessions, watched, lhist, raced>>

\* another task holds a not yet executed call of the same coroutine for the
\* same uuid while task t executes its own
Rival(t) ==
    \E o \in Tasks \ {t} :
        lpc[o] = "pending" /\ l_op[o] = l_op[t] /\ l_uuid[o] = l_uuid[t]

\* the coroutine of task t returns ret: the task is idle again, and the
\* callers' view is brought up to date (an admitted session is active until
\* an end_session is made for it)
Return(t, ret, before) ==
    LET u == l_uuid[t]
    IN /\ lpc' = [lpc EXCEPT ![t] = "idle"]
       /\ l_op' = [l_op EXCEPT ![t] = "none"]
       /\ l_uuid' = [l_uuid EXCEPT ![t] = "A"]
       /\ sessions' = [sessions EXCEPT ![u] =
              IF l_op[t] = "start_session" /\ ret = TRUE THEN @ + 1
              ELSE IF l_op[t] = "end_session" /\ @ > 0 THEN @ - 1
              ELSE @]
       /\ lhist' = IF u = watched
                   THEN Remember(lhist,
                            [op |-> l_op[t], ret |-> ret, before |-> before,
                             after |-> Get(active', u, 0),
                             logged |-> Len(warnings') - Len(warnings)], 3)
                   ELSE lhist
       /\ raced' = IF u # watched THEN raced
                   ELSE IF l_op[t] # "start_session" THEN 0
                   ELSE IF Rival(t) /\ before = max_connections - 1 THEN 1
                   ELSE IF raced = 1 THEN 2
                   ELSE 0

\* the model stops before a call that would log one warning too many
LogHasRoom(t) ==
    (/\ enabled
     /\ l_op[t] = "start_session"
     /\ LimitReached(Get(active, l_uuid[t], 0), max_connections))
    => Len(warnings) < MaxLog

\* the event loop picks a pending limiter coroutine; lines 24-25 / 43-44:
\* with accounting disabled the call returns at once
LimiterEnter(t) ==
    /\ running = NoTask
    /\ lpc[t] = "pending"
    /\ l_op[t] \in {"start_session", "end_session"}
    /\ LogHasRoom(t)
    /\ IF ~enabled
       THEN /\ UNCHANGED <<running, active, warnings>>
            /\ Return(t, IF l_op[t] = "start_session" THEN TRUE ELSE "None",
                      Get(active, l_uuid[t], 0))
       ELSE /\ lpc' = [lpc EXCEPT ![t] = "lock"]
            /\ running' = t
            /\ UNCHANGED <<active, warnings, l_op, l_uuid, sessions, lhist,
                           raced>>
    /\ UNCHANGED <<rateVars, clientVars, max_connections, log_only, enabled, lim_lock, watched>>

\* async with self._lock: asyncio.Lock.acquire returns without suspending
\* when the lock is free
LimiterAcquire(t) ==
    /\ running = t
    /\ lpc[t] = "lock"
    /\ lim_lock = NoTask
    /\ lim_lock' = t
    /\ lpc' = [lpc EXCEPT ![t] = "locked"]
    /\ UNCHANGED <<rateVars, clientVars, running, max_connections, log_only, enabled, active, l_op,
                   l_uuid, warnings, sessions, watched, lhist, raced>>

\* start_session, lines 28-36, and the release of the lock on return
StartSessionBody(t) ==
    /\ running = t
    /\ lpc[t] = "locked"
    /\ lim_lock = t
    /\ l_op[t] = "start_session"
    /\ LET uuid == l_uuid[t]
           current == Get(active, uuid, 0)
       IN IF LimitReached(current, max_connections)
          THEN /\ warnings' = Append(warnings,
                      [event |-> "connection_limit_exceeded", uuid |-> uuid,
                       active |-> current])
               /\ UNCHANGED active
               /\ Return(t, log_only, current)
          ELSE /\ active' = Put(active, uuid, current + 1)
               /\ UNCHANGED warnings
               /\ Return(t, TRUE, current)
    /\ lim_lock' = NoTask
    /\ running' = NoTask
    /\ UNCHANGED <<rateVars, clientVars, max_connections, log_only, enabled, watched>>

\* end_session, lines 46-51, and the release of the lock on return
EndSessionBody(t) ==
    /\ running = t
    /\ lpc[t] = "locked"
    /\ lim_lock = t
    /\ l_op[t] = "end_session"
    /\ LET uuid == l_uuid[t]
           current == Get(active, uuid, 0)
       IN /\ active' = IF LastSession(current)
                       THEN Pop(active, uuid)
                       ELSE Put(active, uuid, current - 1)
          /\ UNCHANGED warnings
          /\ Return(t, "None", current)
    /\ lim_lock' = NoTask
    /\ running' = NoTask
    /\ UNCHANGED <<rateVars, clientVars, max_connections, log_only, enabled, watched>>

\* a caller creates the coroutine mark_suspicious(u)
CallMarkSuspicious(t, u) ==
    /\ FreeSlot(t)
    /\ lpc' = [lpc EXCEPT ![t] = "pending"]
    /\ l_op' = [l_op EXCEPT ![t] = "mark_suspicious"]
    /\ l_uuid' = [l_uuid EXCEPT ![t] = u]
    /\ UNCHANGED <<rateVars, clientVars, running, max_connections, log_only, enabled, active,
                   lim_lock, warnings, sessions, watched, lhist, raced>>

\* mark_suspicious, line 58: it takes no lock and never suspends
MarkSuspiciousMutant(t) ==
    /\ running = NoTask
    /\ lpc[t] = "pending"
    /\ l_op[t] = "mark_suspicious"
    /\ Len(warnings) < MaxLog
    /\ warnings' = Append(warnings,
           [event |-> "suspicious_activity", uuid |-> l_uuid[t]])
    /\ active' = Put(active, l_uuid[t], Get(active, l_uuid[t], 0) + 1)
    /\ Return(t, "None", Get(active, l_uuid[t], 0))
    /\ UNCHANGED <<rateVars, clientVars, running, max_connections, log_only, enabled,
                   lim_lock, watched>>
MarkSuspicious(t) ==
    /\ running = NoTask
    /\ lpc[t] = "pending"
    /\ l_op[t] = "mark_suspicious"
    /\ Len(warnings) < MaxLog
    /\ warnings' = Append(warnings,
           [event |-> "suspicious_activity", uuid |-> l_uuid[t]])
    /\ UNCHANGED active
    /\ Return(t, "None", Get(active, l_uuid[t], 0))
    /\ UNCHANGED <<rateVars, clientVars, running, max_connections, log_only, enabled,
                   lim_lock, watched>>

\* -------------------------------------------------------- RateLimiter: code
\* RateLimiter.__init__
RateLimiterInit(mr, ws) ==
    /\ max_requests = mr
    /\ window_seconds = ws
    /\ hits = << >>
    /\ rl_lock = NoTask

\* [ts for ts in hits if ts >= window_start]
InWindowMutant(ts, window_start) == ts > window_start
InWindow(ts, window_start) == ts >= window_start
Prune(h, window_start) == SelectSeq(h, LAMBDA ts : InWindow(ts, window_start))

\* len(hits) >= self.max_requests
WindowFullMutant(h, limit) == Len(h) > limit
WindowFull(h, limit) == Len(h) >= limit

\* the monotonic clock advances; a call, which never suspends, takes no time
Tick ==
    /\ clock < MaxTime
    /\ running = NoTask
    /\ clock' = clock + 1
    /\ UNCHANGED <<running, limVars, clientVars, max_requests, window_seconds, hits,
                   rl_lock, rpc, r_identity, r_now, r_window_start, ncalls,
                   r_watched, rhist, r_raced>>

\* a request arrives: the coroutine allow(id) is created; it has not run yet
CallAllow(t, id) ==
    /\ rpc[t] = "idle"
    /\ \A o \in Tasks : o < t => rpc[o] # "idle"
    /\ ncalls[id] < MaxCalls
    /\ ncalls' = [ncalls EXCEPT ![id] = @ + 1]
    /\ rpc' = [rpc EXCEPT ![t] = "pending"]
    /\ r_identity' = [r_identity EXCEPT ![t] = id]
    /\ UNCHANGED <<running, limVars, clientVars, clock, max_requests, window_seconds, hits,
                   rl_lock, r_now, r_window_start, r_watched, rhist, r_raced>>

\* the event loop runs the coroutine: lines 42-43
AllowEnter(t) ==
    /\ running = NoTask
    /\ rpc[t] = "pending"
    /\ running' = t
    /\ r_now' = [r_now EXCEPT ![t] = clock]
    /\ r_window_start' = [r_window_start EXCEPT ![t] = clock - window_seconds]
    /\ rpc' = [rpc EXCEPT ![t] = "lock"]
    /\ UNCHANGED <<limVars, clientVars, clock, max_requests, window_seconds, hits, rl_lock,
                   r_identity, ncalls, r_watched, rhist, r_raced>>

\* async with self._lock, line 45
AllowAcquire(t) ==
    /\ running = t
    /\ rpc[t] = "lock"
    /\ rl_lock = NoTask
    /\ rl_lock' = t
    /\ rpc' = [rpc EXCEPT ![t] = "locked"]
    /\ UNCHANGED <<running, limVars, clientVars, clock, max_requests, window_seconds, hits,
                   r_identity, r_now, r_window_start, ncalls, r_watched, rhist, r_raced>>

\* another task holds a not yet executed allow() for the same identity
AllowRival(t) ==
    \E o \in Tasks \ {t} : rpc[o] = "pending" /\ r_identity[o] = r_identity[t]

\* lines 46-54, and the release of the lock on return
AllowBody(t) ==
    /\ running = t
    /\ rpc[t] = "locked"
    /\ rl_lock = t
    /\ LET identity == r_identity[t]
           stored == Get(hits, identity, << >>)
           pruned == Prune(stored, r_window_start[t])
           full == WindowFull(pruned, max_requests)
           kept == IF full THEN pruned ELSE Append(pruned, r_now[t])
       IN /\ hits' = Put(hits, identity, kept)
          /\ rhist' = IF identity = r_watched
                      THEN Append(rhist,
                               [now |-> r_now[t], ret |-> ~full,
                                before |-> stored, after |-> kept])
                      ELSE rhist
          /\ r_raced' = (r_raced \/ (identity = r_watched /\ AllowRival(t)))
    /\ rl_lock' = NoTask
    /\ running' = NoTask
    /\ rpc' = [rpc EXCEPT ![t] = "idle"]
    /\ r_identity' = [r_identity EXCEPT ![t] = "X"]
    /\ r_now' = [r_now EXCEPT ![t] = 0]
    /\ r_window_start' = [r_window_start EXCEPT ![t] = 0]
    /\ UNCHANGED <<limVars, clientVars, clock, max_requests, window_seconds, ncalls,
                   r_watched>>

\* --------------------------------------------------------- XrayClient: code
\* text is a sequence of characters
T_empty == << >>
T_exists == <<"U", "s", "e", "r", " ", "a", "l", "r", "e", "a", "d", "y", " ", "E", "X", "I", "S", "T", "S", ".">>
T_notfound == <<"U", "s", "e", "r", " ", "N", "o", "t", " ", "F", "o", "u", "n", "d", ".">>
T_boom == <<"b", "o", "o", "m">>
T_closed == <<"C", "h", "a", "n", "n", "e", "l", " ", "c", "l", "o", "s", "e", "d", "!">>
T_timedout == <<"T", "i", "m", "e", "d", " ", "o", "u", "t", " ", "c", "o", "n", "n", "e", "c", "t", "i", "n", "g", " ", "t", "o", " ", "X", "r", "a", "y", " ", "g", "R", "P", "C">>
T_str == <<"<", "A", "i", "o", "R", "p", "c", "E", "r", "r", "o", "r", ">">>
N_exist == <<"e", "x", "i", "s", "t">>
N_notfound == <<"n", "o", "t", " ", "f", "o", "u", "n", "d">>

\* str.lower()
LowerChar(c) ==
    CASE c = "A" -> "a" [] c = "B" -> "b" [] c = "C" -> "c" [] c = "D" -> "d"
      [] c = "E" -> "e" [] c = "F" -> "f" [] c = "G" -> "g" [] c = "H" -> "h"
      [] c = "I" -> "i" [] c = "J" -> "j" [] c = "K" -> "k" [] c = "L" -> "l"
      [] c = "M" -> "m" [] c = "N" -> "n" [] c = "O" -> "o" [] c = "P" -> "p"
      [] c = "Q" -> "q" [] c = "R" -> "r" [] c = "S" -> "s" [] c = "T" -> "t"
      [] c = "U" -> "u" [] c = "V" -> "v" [] c = "W" -> "w" [] c = "X" -> "x"
      [] c = "Y" -> "y" [] c = "Z" -> "z"
      [] OTHER -> c
Lower(text) == [i \in 1 .. Len(text) |-> LowerChar(text[i])]

\* needle in text
Contains(text, needle) ==
    \E i \in 1 .. Len(text) - Len(needle) + 1 :
        SubSeq(text, i, i + Len(needle) - 1) = needle

NoReply == [kind |-> "none", code |-> "OK", details |-> T_empty]
Ack == [kind |-> "ack", code |-> "OK", details |-> T_empty]

\* how the proxy reports that the user of an AddUser request is already there
AlreadyExistsReplies ==
    {[kind |-> "benign", code |-> "ALREADY_EXISTS", details |-> T_empty],
     [kind |-> "benign", code |-> "UNKNOWN", details |-> T_exists]}

\* how the proxy reports that the user of a RemoveUser request is not there
NotFoundReplies ==
    {[kind |-> "benign", code |-> "NOT_FOUND", details |-> T_empty],
     [kind |-> "benign", code |-> "UNKNOWN", details |-> T_notfound]}

\* a failure of the proxy that has nothing to do with the user
FaultReplies == {[kind |-> "fault", code |-> "UNAVAILABLE", details |-> T_boom]}

\* the RPC was made on a connection that is being closed or is closed: the
\* call is cancelled with an RPC error, or the transport refuses to make it
ClosedReplies ==
    {[kind |-> "closed", code |-> "CANCELLED", details |-> T_closed],
     [kind |-> "usage", code |-> "NONE", details |-> T_closed]}

\* any error the proxy could answer a request with
RemoteErrors ==
    [kind : {"error"},
     code : {"ALREADY_EXISTS", "NOT_FOUND", "FAILED_PRECONDITION", "UNAVAILABLE"},
     details : {T_empty, T_exists, T_notfound, T_boom}]

\* exc.details() or str(exc), lines 236, 293 and 317
ErrorText(details) == IF details # T_empty THEN details ELSE T_str

\* the message of the XrayClientError a call ends with (empty when it ends
\* otherwise): lines 234 and 236 for a failed readiness wait, 293 and 317 for
\* a failed request
Message(ret, ready, reply) ==
    IF ret # "XrayClientError" THEN T_empty
    ELSE IF reply.kind # "none" THEN ErrorText(reply.details)
    ELSE IF ready = "timeout" THEN T_timedout
    ELSE ErrorText(T_empty)

\* add_user, lines 288-293: the value returned or the error raised
AddUserErrorMutant(code, details) ==
    IF code = "ALREADY_EXISTS" /\ Contains(Lower(details), N_exist)
    THEN "False" ELSE "XrayClientError"
AddUserError(code, details) ==
    IF code = "ALREADY_EXISTS" \/ Contains(Lower(details), N_exist)
    THEN "False" ELSE "XrayClientError"

\* remove_user, lines 312-317: the value returned or the error raised
RemoveUserErrorMutant(code, details) ==
    IF code = "NOT_FOUND" \/ Contains(details, N_notfound)
    THEN "False" ELSE "XrayClientError"
RemoveUserError(code, details) ==
    IF code \in {"NOT_FOUND", "FAILED_PRECONDITION"}
       \/ Contains(Lower(details), N_notfound)
    THEN "False" ELSE "XrayClientError"

\* config.py, line 7
LOCALHOST_VALUES == {"127.0.0.1", "localhost", "::1"}

\* hosts a client is constructed with
Hosts == LOCALHOST_VALUES \cup {"203.0.113.5", "0.0.0.0", "LOCALHOST", " localhost"}

\* XrayClient.__init__, line 168: the host is accepted
LoopbackMutant(host) == host # "203.0.113.5"
Loopback(host) == host \in LOCALHOST_VALUES

\* XrayClient.__init__, lines 178-180
ClientInit ==
    /\ channel = 0
    /\ stub = 0
    /\ conns = << >>

\* XrayClient(host, ...), lines 168-180: the state the call ends in
Construct(host) ==
    IF Loopback(host)
    THEN [state |-> "made", target |-> host]
    ELSE [state |-> "failed", target |-> "none"]

\* the application calls XrayClient(host, ...)
NewClient(host) ==
    /\ running = NoTask
    /\ c_state = "none"
    /\ c_host' = host
    /\ c_state' = Construct(host).state
    /\ c_target' = Construct(host).target
    /\ UNCHANGED <<running, limVars, rateVars, channel, stub, conns, endpoint,
                   remote, cpc, c_op, c_uuid, c_chan, c_stage, c_created,
                   c_callers, c_faults, c_watched, chist>>

UserOps == {"add_user", "remove_user"}
ClientOps == {"start", "close", "check_health"} \cup UserOps

\* number of times u occurs in the proxy's user list
Occurrences(u) == Cardinality({i \in 1 .. Len(remote) : remote[i] = u})

\* a caller creates a client coroutine; it has not run yet
CallClient(t, op, u) ==
    /\ c_state = "made"
    /\ cpc[t] = "idle"
    /\ \A o \in Tasks : o < t => cpc[o] # "idle"
    /\ Cardinality({o \in Tasks : cpc[o] # "idle"}) < c_callers
    /\ op \notin UserOps => u = "A"
    /\ cpc' = [cpc EXCEPT ![t] = "pending"]
    /\ c_op' = [c_op EXCEPT ![t] = op]
    /\ c_uuid' = [c_uuid EXCEPT ![t] = u]
    /\ UNCHANGED <<running, limVars, rateVars, channel, stub, conns, endpoint,
                   remote, c_chan, c_stage, c_created, c_callers, c_faults, c_state, c_host, c_target, c_watched, chist>>

\* the coroutine of task t ends with ret (a value or a raised error)
Finish(t, ret, ready, reply, present, created) ==
    /\ cpc' = [cpc EXCEPT ![t] = "idle"]
    /\ c_op' = [c_op EXCEPT ![t] = "none"]
    /\ c_uuid' = [c_uuid EXCEPT ![t] = "A"]
    /\ c_chan' = [c_chan EXCEPT ![t] = 0]
    /\ c_stage' = [c_stage EXCEPT ![t] = "none"]
    /\ c_created' = [c_created EXCEPT ![t] = FALSE]
    /\ chist' = IF c_op[t] \in UserOps /\ c_uuid[t] # c_watched
                THEN chist
                ELSE Remember(chist,
                         [op |-> c_op[t], ret |-> ret,
                          ready |-> ready, reply |-> reply,
                          present |-> present, created |-> created,
                          changed |-> remote' # remote,
                          msg |-> Message(ret, ready, reply)], 2)

\* start(), lines 214-226: a new connection and its two callables, then the
\* readiness wait begins
Connect(t) ==
    /\ Len(conns) < MaxConns
    /\ conns' = Append(conns, "open")
    /\ channel' = Len(conns) + 1
    /\ stub' = Len(conns) + 1
    /\ cpc' = [cpc EXCEPT ![t] = "wait_ready"]
    /\ c_chan' = [c_chan EXCEPT ![t] = Len(conns) + 1]
    /\ c_stage' = [c_stage EXCEPT ![t] = "start"]
    /\ c_created' = [c_created EXCEPT ![t] = TRUE]

\* _ensure_channel_ready(), lines 229-232, on the connection already held
Revalidate(t) ==
    /\ cpc' = [cpc EXCEPT ![t] = "wait_ready"]
    /\ c_chan' = [c_chan EXCEPT ![t] = channel]
    /\ c_stage' = [c_stage EXCEPT ![t] = "ensure"]
    /\ UNCHANGED <<channel, stub, conns, c_created>>

\* start() runs up to its first suspension, lines 211-226
StartBeginMutant(t) ==
    /\ running = NoTask
    /\ cpc[t] = "pending"
    /\ c_op[t] = "start"
    /\ Connect(t)
    /\ UNCHANGED <<c_op, c_uuid, chist, remote>>
    /\ UNCHANGED <<running, limVars, rateVars, endpoint, c_callers, c_faults, c_state, c_host, c_target, c_watched>>
StartBegin(t) ==
    /\ running = NoTask
    /\ cpc[t] = "pending"
    /\ c_op[t] = "start"
    /\ IF channel # 0
       THEN /\ UNCHANGED <<channel, stub, conns, remote>>
            /\ Finish(t, "None", "none", NoReply, FALSE, FALSE)
       ELSE /\ Connect(t)
            /\ UNCHANGED <<c_op, c_uuid, chist, remote>>
    /\ UNCHANGED <<running, limVars, rateVars, endpoint, c_callers, c_faults, c_state, c_host, c_target, c_watched>>

\* add_user() / remove_user() run up to the first suspension, lines 270-273
\* and 300-303
UserOpBegin(t) ==
    /\ running = NoTask
    /\ cpc[t] = "pending"
    /\ c_op[t] \in UserOps
    /\ IF channel = 0 THEN Connect(t) ELSE Revalidate(t)
    /\ UNCHANGED <<running, limVars, rateVars, endpoint, remote, c_op, c_uuid,
                   c_callers, c_faults, c_state, c_host, c_target, c_watched, chist>>

\* check_health() runs up to its first suspension, lines 320-323
HealthBegin(t) ==
    /\ running = NoTask
    /\ cpc[t] = "pending"
    /\ c_op[t] = "check_health"
    /\ IF channel = 0 THEN Connect(t) ELSE Revalidate(t)
    /\ UNCHANGED <<running, limVars, rateVars, endpoint, remote, c_op, c_uuid,
                   c_callers, c_faults, c_state, c_host, c_target, c_watched, chist>>

\* close() runs up to its suspension, lines 239-240
CloseBegin(t) ==
    /\ running = NoTask
    /\ cpc[t] = "pending"
    /\ c_op[t] = "close"
    /\ IF channel # 0
       THEN /\ conns' = [conns EXCEPT ![channel] = "closing"]
            /\ cpc' = [cpc EXCEPT ![t] = "closing"]
            /\ c_chan' = [c_chan EXCEPT ![t] = channel]
            /\ UNCHANGED <<channel, stub, remote, c_op, c_uuid, c_stage,
                           c_created, chist>>
       ELSE /\ UNCHANGED <<channel, stub, conns, remote>>
            /\ Finish(t, "None", "none", NoReply, FALSE, FALSE)
    /\ UNCHANGED <<running, limVars, rateVars, endpoint, c_callers, c_faults, c_state, c_host, c_target, c_watched>>

\* close() resumes, line 241
CloseCompletesMutant(t) ==
    /\ running = NoTask
    /\ cpc[t] = "closing"
    /\ conns' = [conns EXCEPT ![c_chan[t]] = "closed"]
    /\ UNCHANGED <<channel, stub, remote>>
    /\ Finish(t, "None", "none", NoReply, FALSE, c_created[t])
    /\ UNCHANGED <<running, limVars, rateVars, endpoint, c_callers, c_faults, c_state, c_host, c_target, c_watched>>
CloseCompletes(t) ==
    /\ running = NoTask
    /\ cpc[t] = "closing"
    /\ conns' = [conns EXCEPT ![c_chan[t]] = "closed"]
    /\ channel' = 0
    /\ UNCHANGED <<stub, remote>>
    /\ Finish(t, "None", "none", NoReply, FALSE, c_created[t])
    /\ UNCHANGED <<running, limVars, rateVars, endpoint, c_callers, c_faults, c_state, c_host, c_target, c_watched>>

\* close(), lines 239-241, when closing the connection does not suspend:
\* the whole call is one step of the event loop
Close(t) ==
    /\ running = NoTask
    /\ cpc[t] = "pending"
    /\ c_op[t] = "close"
    /\ IF channel # 0
       THEN /\ conns' = [conns EXCEPT ![channel] = "closed"]
            /\ channel' = 0
            /\ UNCHANGED <<stub, remote>>
       ELSE UNCHANGED <<channel, stub, conns, remote>>
    /\ Finish(t, "None", "none", NoReply, FALSE, FALSE)
    /\ UNCHANGED <<running, limVars, rateVars, endpoint, c_callers, c_faults, c_state, c_host, c_target, c_watched>>

\* what asyncio.wait_for(channel.channel_ready(), timeout=2) ends with
ReadyOutcomes(c) ==
    IF conns[c] = "open" THEN {endpoint} ELSE {"timeout", "usage_error"}

\* what a failed readiness wait raises out of _ensure_channel_ready, lines
\* 233-236
ReadyErrorMutant(outcome) ==
    IF outcome = "timeout" THEN "XrayClientError" ELSE "OtherError"
ReadyError(outcome) ==
    IF outcome \in {"timeout", "reject"} THEN "XrayClientError" ELSE "OtherError"

\* the coroutine of task t runs on from its readiness wait, which ended with
\* outcome, to its next suspension or to its end
Continue(t, outcome) ==
    /\ IF outcome # "ready"
       THEN \* start / add_user / remove_user let the error through;
            \* check_health catches XrayClientError only, lines 325-326
            /\ UNCHANGED <<channel, stub, conns, remote>>
            /\ Finish(t, IF c_op[t] = "check_health"
                            /\ ReadyError(outcome) = "XrayClientError"
                         THEN "False" ELSE ReadyError(outcome),
                      outcome, NoReply, FALSE, c_created[t])
       ELSE CASE c_op[t] = "start" ->
                   /\ UNCHANGED <<channel, stub, conns, remote>>
                   /\ Finish(t, "None", outcome, NoReply, FALSE, c_created[t])
              [] c_op[t] \in UserOps ->
                   \* lines 275-286 / 305-310: the request is built and sent
                   /\ cpc' = [cpc EXCEPT ![t] = "rpc"]
                   /\ c_chan' = [c_chan EXCEPT ![t] = stub]
                   /\ UNCHANGED <<channel, stub, conns, remote, c_op, c_uuid,
                                  c_stage, c_created, chist>>
              [] c_op[t] = "check_health" /\ c_stage[t] = "start" ->
                   \* line 323 after start(): a second readiness wait
                   IF channel = 0
                   THEN /\ UNCHANGED <<channel, stub, conns, remote>>
                        /\ Finish(t, "False", "none", NoReply, FALSE,
                                  c_created[t])
                   ELSE /\ cpc' = [cpc EXCEPT ![t] = "wait_ready"]
                        /\ c_chan' = [c_chan EXCEPT ![t] = channel]
                        /\ c_stage' = [c_stage EXCEPT ![t] = "ensure"]
                        /\ UNCHANGED <<channel, stub, conns, remote, c_op,
                                       c_uuid, c_created, chist>>
              [] c_op[t] = "check_health" /\ c_stage[t] = "ensure" ->
                   /\ UNCHANGED <<channel, stub, conns, remote>>
                   /\ Finish(t, "True", outcome, NoReply, FALSE, c_created[t])
    /\ UNCHANGED <<running, limVars, rateVars, endpoint, c_callers, c_faults, c_state, c_host, c_target, c_watched>>

\* the readiness wait of task t is over and the task runs on at once
ReadyResolves(t, outcome) ==
    /\ running = NoTask
    /\ cpc[t] = "wait_ready"
    /\ outcome \in ReadyOutcomes(c_chan[t])
    /\ Continue(t, outcome)

\* the readiness wait of task t succeeded: asyncio.wait_for, line 232, makes
\* the task runnable again, and other tasks may run before it does
ReadyDone(t) ==
    /\ running = NoTask
    /\ cpc[t] = "wait_ready"
    /\ "ready" \in ReadyOutcomes(c_chan[t])
    /\ cpc' = [cpc EXCEPT ![t] = "woken"]
    /\ UNCHANGED <<running, limVars, rateVars, channel, stub, conns, endpoint,
                   remote, c_op, c_uuid, c_chan, c_stage, c_created,
                   c_callers, c_faults, c_state, c_host, c_target, c_watched, chist>>

\* the task woken by ReadyDone runs on
Resume(t) ==
    /\ running = NoTask
    /\ cpc[t] = "woken"
    /\ Continue(t, "ready")

\* what the proxy may answer to the request of task t
Replies(t) ==
    IF conns[c_chan[t]] # "open" THEN ClosedReplies
    ELSE c_faults \cup
         (IF c_op[t] = "add_user"
          THEN IF Occurrences(c_uuid[t]) = 0 THEN {Ack} ELSE AlreadyExistsReplies
          ELSE IF Occurrences(c_uuid[t]) > 0 THEN {Ack} ELSE NotFoundReplies)

\* the proxy's user list after it acknowledged the request of task t
Applied(t) ==
    IF c_op[t] = "add_user"
    THEN Append(remote, c_uuid[t])
    ELSE SelectSeq(remote, LAMBDA u : u # c_uuid[t])

\* the RPC of task t is answered: lines 285-293 / 309-317
RpcCompletes(t, reply) ==
    /\ running = NoTask
    /\ cpc[t] = "rpc"
    /\ reply \in Replies(t)
    /\ remote' = IF reply.kind = "ack" THEN Applied(t) ELSE remote
    /\ Finish(t,
              IF reply.kind = "ack" THEN "True"
              ELSE IF reply.kind = "usage" THEN "OtherError"
              ELSE IF c_op[t] = "add_user"
                   THEN AddUserError(reply.code, reply.details)
                   ELSE RemoveUserError(reply.code, reply.details),
              "ready", reply, Occurrences(c_uuid[t]) > 0, c_created[t])
    /\ UNCHANGED <<running, limVars, rateVars, channel, stub, conns, endpoint,
                   c_callers, c_faults, c_state, c_host, c_target, c_watched>>

\* the management endpoint comes up, goes away or starts refusing
EndpointChanges(e) ==
    /\ e # endpoint
    /\ endpoint' = e
    /\ UNCHANGED <<running, limVars, rateVars, channel, stub, conns, remote,
                   cpc, c_op, c_uuid, c_chan, c_stage, c_created, c_callers,
                   c_faults, c_state, c_host, c_target, c_watched, chist>>

\* ------------------------------------------------- inbound calls: code
\* settings.api_key and the values of the X-API-KEY header ("None": no header)
ApiKey == "secret"
Keys == {"None", "secret", "wrong"}

\* verify_api_key, security.py line 82 (negated)
KeyAcceptedMutant(key) == key # "None"
KeyAccepted(key) == key # "None" /\ key = ApiKey

\* the value the allow() call of task t is about to return, lines 46-54
AllowResult(t) ==
    ~WindowFull(Prune(Get(hits, r_identity[t], << >>), r_window_start[t]),
                max_requests)

\* main.py, lines 72-80 and 87-95: the HTTP status a client call ends in
StatusOf(ret) ==
    IF ret \in {"True", "False"} THEN "200"
    ELSE IF ret = "XrayClientError" THEN "503"
    ELSE "500"

NoRequest ==
    [stage |-> "none", path |-> "none", ip |-> "X", key |-> "None",
     slot |-> NoTask, trail |-> << >>, status |-> "none"]

\* the call served by q is answered
Respond(q, status, event) ==
    /\ last' = Remember(last,
                   [req[q] EXCEPT !.stage = "done", !.slot = NoTask,
                                  !.trail = Append(@, event),
                                  !.status = status], 2)
    /\ req' = [req EXCEPT ![q] = NoRequest]

\* the call served by q moves on
Proceed(q, stage, slot, event) ==
    /\ req' = [req EXCEPT ![q].stage = stage, ![q].slot = slot,
                          ![q].trail = Append(@, event)]
    /\ UNCHANGED last

\* a POST /add_user or /remove_user arrives: RateLimitMiddleware.dispatch,
\* security.py lines 62-64, calls allow(client_ip)
Arrive(q, path, ip, key) ==
    /\ req[q].stage = "none"
    /\ \A o \in Tasks : o < q => req[o].stage # "none"
    /\ \E t \in Tasks :
          /\ CallAllow(t, ip)
          /\ req' = [req EXCEPT ![q] =
                 [stage |-> "limiter", path |-> path, ip |-> ip, key |-> key,
                  slot |-> t, trail |-> << >>, status |-> "none"]]
    /\ UNCHANGED last

\* allow() returns to dispatch, security.py lines 66-72: 429, or call_next
Dispatch(q) ==
    /\ req[q].stage = "limiter"
    /\ AllowBody(req[q].slot)
    /\ IF AllowResult(req[q].slot)
       THEN Proceed(q, "auth", NoTask, "admitted")
       ELSE Respond(q, "429", "denied")

\* the dependency verify_api_key of the route, security.py lines 82-83
VerifyApiKey(q) ==
    /\ running = NoTask
    /\ req[q].stage = "auth"
    /\ IF KeyAccepted(req[q].key)
       THEN Proceed(q, "handler", NoTask, "authenticated")
       ELSE Respond(q, "403", "forbidden")
    /\ UNCHANGED <<running, limVars, rateVars, clientVars>>

\* the route function, main.py lines 70-73 / 85-88: the client call is made
Handler(q) ==
    /\ req[q].stage = "handler"
    /\ \E t \in Tasks :
          /\ CallClient(t, req[q].path, c_watched)
          /\ Proceed(q, "client", t, "client")

\* the client call of q runs on; when it ends, main.py lines 74-80 / 89-95
\* answer the inbound call
ClientReady(q, outcome) ==
    /\ req[q].stage = "client"
    /\ ReadyResolves(req[q].slot, outcome)
    /\ IF cpc'[req[q].slot] = "idle"
       THEN Respond(q, StatusOf(chist'[Len(chist')].ret), "raised")
       ELSE UNCHANGED reqVars

ClientReplied(q, reply) ==
    /\ req[q].stage = "client"
    /\ RpcCompletes(req[q].slot, reply)
    /\ Respond(q, StatusOf(chist'[Len(chist')].ret), "answered")

InitRequestState ==
    /\ req = [q \in Tasks |-> NoRequest]
    /\ last = << >>

\* ------------------------------------------------ schema registration: code
\* the file any_pb2 registers when xray_client.py is imported, line 5
AnyProto == "google/protobuf/any.proto"

\* the three files _register_proto_definitions builds, lines 40-63, 71-102
\* and 110-144: the message looked up first, the messages defined, the
\* files depended on
SchemaFile(g) ==
    CASE g = 1 -> [name |-> "xray_proxy_vless.proto",
                   probe |-> "xray.proxy.vless.Account",
                   messages |-> {"xray.proxy.vless.Account"},
                   dependency |-> {}]
      [] g = 2 -> [name |-> "xray_common_protocol.proto",
                   probe |-> "xray.common.protocol.User",
                   messages |-> {"xray.common.protocol.User"},
                   dependency |-> {AnyProto}]
      [] g = 3 -> [name |-> "xray_proxyman_command.proto",
                   probe |-> "xray.app.proxyman.command.AddUserRequest",
                   messages |-> {"xray.app.proxyman.command.AddUserRequest",
                                 "xray.app.proxyman.command.AddUserResponse",
                                 "xray.app.proxyman.command.RemoveUserRequest",
                                 "xray.app.proxyman.command.RemoveUserResponse"},
                   dependency |-> {"xray_common_protocol.proto"}]

AllFiles == <<SchemaFile(1).name, SchemaFile(2).name, SchemaFile(3).name>>

\* the messages a registered file defines
Defines(name) ==
    IF name = AnyProto THEN {"google.protobuf.Any"}
    ELSE UNION {SchemaFile(g).messages : g \in {h \in 1 .. 3 : SchemaFile(h).name = name}}

\* the names of the files the pool holds
Registered(p) == {p[i] : i \in 1 .. Len(p)} \cup {AnyProto}

\* pool.FindMessageTypeByName(msg) raises KeyError, lines 37-39
MessageMissingMutant(p, msg) == Len(p) = 0
MessageMissing(p, msg) == \A name \in Registered(p) : msg \notin Defines(name)

\* pool.FindFileByName(name) raises KeyError, lines 23-25
FileMissing(p, name) == name \notin Registered(p)

\* pool.Add(file_proto), line 26: the file is appended, unless a file of that
\* name is there (the same file: nothing happens), one of its messages is
\* defined already or a file it depends on is not there (an error is raised)
Add(p, f) ==
    IF ~FileMissing(p, f.name) THEN [pool |-> p, error |-> "none"]
    ELSE IF \E m \in f.messages : ~MessageMissing(p, m)
         THEN [pool |-> p, error |-> "duplicate"]
    ELSE IF \E d \in f.dependency : FileMissing(p, d)
         THEN [pool |-> p, error |-> "dependency"]
    ELSE [pool |-> Append(p, f.name), error |-> "none"]

\* _ensure_descriptor, lines 23-26
EnsureDescriptor(p, f) ==
    IF FileMissing(p, f.name) THEN Add(p, f) ELSE [pool |-> p, error |-> "none"]

\* _register_proto_definitions is called
CallRegister ==
    /\ s_pc = <<"idle", 0>>
    /\ s_error = "none"
    /\ Len(s_before) < MaxRuns
    /\ s_before' = Append(s_before, pool)
    /\ s_pc' = <<"probe", 1>>
    /\ UNCHANGED <<pool, s_error>>

\* the lookup of a file's first message, lines 37-39, 68-70, 107-109
Probe(g) ==
    /\ s_pc = <<"probe", g>>
    /\ s_pc' = IF MessageMissing(pool, SchemaFile(g).probe) THEN <<"build", g>>
               ELSE IF g < 3 THEN <<"probe", g + 1>>
               ELSE <<"idle", 0>>
    /\ UNCHANGED <<pool, s_error, s_before>>

\* the file is built and handed to _ensure_descriptor, lines 40-65, 71-104,
\* 110-146
Build(g) ==
    /\ s_pc = <<"build", g>>
    /\ LET r == EnsureDescriptor(pool, SchemaFile(g))
       IN /\ pool' = r.pool
          /\ s_error' = r.error
          /\ s_pc' = IF r.error = "none" /\ g < 3 THEN <<"probe", g + 1>>
                     ELSE <<"idle", 0>>
    /\ UNCHANGED s_before

\* the pool after xray_client.py was imported
InitSchemaState ==
    /\ s_pc = <<"idle", 0>>
    /\ s_error = "none"
    /\ s_before = << <<>> >>

\* ------------------------------------------------------- specifications
InitLimiterState ==
    /\ lpc = [t \in Tasks |-> "idle"]
    /\ l_op = [t \in Tasks |-> "none"]
    /\ l_uuid = [t \in Tasks |-> "A"]
    /\ warnings = << >>
    /\ sessions = [u \in Uuids |-> 0]
    /\ lhist = << >>
    /\ raced = 0

InitRateState ==
    /\ clock = 0
    /\ rpc = [t \in Tasks |-> "idle"]
    /\ r_identity = [t \in Tasks |-> "X"]
    /\ r_now = [t \in Tasks |-> 0]
    /\ r_window_start = [t \in Tasks |-> 0]
    /\ ncalls = [id \in Identities |-> 0]
    /\ rhist = << >>
    /\ r_raced = FALSE

InitClientState ==
    /\ ClientInit
    /\ remote = << >>
    /\ cpc = [t \in Tasks |-> "idle"]
    /\ c_op = [t \in Tasks |-> "none"]
    /\ c_uuid = [t \in Tasks |-> "A"]
    /\ c_chan = [t \in Tasks |-> 0]
    /\ c_stage = [t \in Tasks |-> "none"]
    /\ c_created = [t \in Tasks |-> FALSE]
    /\ c_watched = "A"
    /\ chist = << >>

\* a limiter with any configuration; the rest is left alone
InitLimiter ==
    /\ running = NoTask
    /\ pool = AllFiles /\ InitSchemaState
    /\ InitRequestState
    /\ \E cfg \in -1 .. MaxConfigured, lo \in BOOLEAN : LimiterInit(cfg, lo)
    /\ watched \in Uuids
    /\ InitLimiterState
    /\ RateLimiterInit(MaxRequests, MaxWindow)
    /\ r_watched = "X"
    /\ InitRateState
    /\ endpoint = "ready"
    /\ c_callers = 1
    /\ c_faults = FaultReplies
    /\ c_host = "127.0.0.1"
    /\ c_state = Construct("127.0.0.1").state
    /\ c_target = Construct("127.0.0.1").target
    /\ InitClientState

NextLimiter ==
    \/ \E t \in Tasks, u \in Uuids : CallStartSession(t, u) /\ UNCHANGED <<reqVars, poolVars>>
    \/ \E t \in Tasks, u \in Uuids : CallEndSession(t, u) /\ UNCHANGED <<reqVars, poolVars>>
    \/ \E t \in Tasks : LimiterEnter(t) /\ UNCHANGED <<reqVars, poolVars>>
    \/ \E t \in Tasks : LimiterAcquire(t) /\ UNCHANGED <<reqVars, poolVars>>
    \/ \E t \in Tasks : StartSessionBody(t) /\ UNCHANGED <<reqVars, poolVars>>
    \/ \E t \in Tasks : EndSessionBody(t) /\ UNCHANGED <<reqVars, poolVars>>

SpecLimiter == InitLimiter /\ [][NextLimiter]_vars

\* a rate limiter with any configuration; the connection limiter is left alone
InitRate ==
    /\ running = NoTask
    /\ pool = AllFiles /\ InitSchemaState
    /\ InitRequestState
    /\ \E mr \in 0 .. MaxRequests, ws \in 1 .. MaxWindow : RateLimiterInit(mr, ws)
    /\ r_watched = "X"
    /\ InitRateState
    /\ LimiterInit(0, FALSE)
    /\ watched = "A"
    /\ InitLimiterState
    /\ endpoint = "ready"
    /\ c_callers = 1
    /\ c_faults = FaultReplies
    /\ c_host = "127.0.0.1"
    /\ c_state = Construct("127.0.0.1").state
    /\ c_target = Construct("127.0.0.1").target
    /\ InitClientState

NextRate ==
    \/ Tick /\ UNCHANGED <<reqVars, poolVars>>
    \/ \E t \in Tasks, id \in Identities : CallAllow(t, id) /\ UNCHANGED <<reqVars, poolVars>>
    \/ \E t \in Tasks : AllowEnter(t) /\ UNCHANGED <<reqVars, poolVars>>
    \/ \E t \in Tasks : AllowAcquire(t) /\ UNCHANGED <<reqVars, poolVars>>
    \/ \E t \in Tasks : AllowBody(t) /\ UNCHANGED <<reqVars, poolVars>>

SpecRate == InitRate /\ [][NextRate]_vars

\* a client facing an endpoint in any condition, used by a caller that makes
\* one call after the other; the limiters are left alone
InitClient ==
    /\ running = NoTask
    /\ pool = AllFiles /\ InitSchemaState
    /\ InitRequestState
    /\ endpoint \in {"ready", "timeout", "reject"}
    /\ c_callers = 1
    /\ c_faults = FaultReplies
    /\ c_host = "127.0.0.1"
    /\ c_state = Construct("127.0.0.1").state
    /\ c_target = Construct("127.0.0.1").target
    /\ InitClientState
    /\ LimiterInit(0, FALSE)
    /\ watched = "A"
    /\ InitLimiterState
    /\ RateLimiterInit(MaxRequests, MaxWindow)
    /\ r_watched = "X"
    /\ InitRateState

NextClient ==
    \/ \E t \in Tasks, op \in ClientOps, u \in Uuids : CallClient(t, op, u) /\ UNCHANGED <<reqVars, poolVars>>
    \/ \E t \in Tasks : StartBegin(t) /\ UNCHANGED <<reqVars, poolVars>>
    \/ \E t \in Tasks : UserOpBegin(t) /\ UNCHANGED <<reqVars, poolVars>>
    \/ \E t \in Tasks : HealthBegin(t) /\ UNCHANGED <<reqVars, poolVars>>
    \/ \E t \in Tasks : CloseBegin(t) /\ UNCHANGED <<reqVars, poolVars>>
    \/ \E t \in Tasks : CloseCompletes(t) /\ UNCHANGED <<reqVars, poolVars>>
    \/ \E t \in Tasks, o \in {"ready", "timeout", "reject", "usage_error"} :
          ReadyResolves(t, o) /\ UNCHANGED <<reqVars, poolVars>>
    \/ \E t \in Tasks, r \in AlreadyExistsReplies \cup NotFoundReplies
                              \cup FaultReplies \cup ClosedReplies \cup {Ack} :
          RpcCompletes(t, r) /\ UNCHANGED <<reqVars, poolVars>>
    \/ \E e \in {"ready", "timeout", "reject"} : EndpointChanges(e) /\ UNCHANGED <<reqVars, poolVars>>

SpecClient == InitClient /\ [][NextClient]_vars

\* a client facing a ready endpoint, used by two callers whose calls overlap;
\* a task whose wait has ended runs when the event loop gets to it
InitConcurrent ==
    /\ running = NoTask
    /\ pool = AllFiles /\ InitSchemaState
    /\ InitRequestState
    /\ endpoint = "ready"
    /\ c_callers = 2
    /\ c_faults = {}
    /\ c_host = "127.0.0.1"
    /\ c_state = Construct("127.0.0.1").state
    /\ c_target = Construct("127.0.0.1").target
    /\ InitClientState
    /\ LimiterInit(0, FALSE)
    /\ watched = "A"
    /\ InitLimiterState
    /\ RateLimiterInit(MaxRequests, MaxWindow)
    /\ r_watched = "X"
    /\ InitRateState

NextConcurrent ==
    \/ \E t \in Tasks, op \in ClientOps : CallClient(t, op, "A") /\ UNCHANGED <<reqVars, poolVars>>
    \/ \E t \in Tasks : StartBegin(t) /\ UNCHANGED <<reqVars, poolVars>>
    \/ \E t \in Tasks : UserOpBegin(t) /\ UNCHANGED <<reqVars, poolVars>>
    \/ \E t \in Tasks : HealthBegin(t) /\ UNCHANGED <<reqVars, poolVars>>
    \/ \E t \in Tasks : Close(t) /\ UNCHANGED <<reqVars, poolVars>>
    \/ \E t \in Tasks, o \in {"timeout", "usage_error"} :
          ReadyResolves(t, o) /\ UNCHANGED <<reqVars, poolVars>>
    \/ \E t \in Tasks : ReadyDone(t) /\ UNCHANGED <<reqVars, poolVars>>
    \/ \E t \in Tasks : Resume(t) /\ UNCHANGED <<reqVars, poolVars>>
    \/ \E t \in Tasks, r \in AlreadyExistsReplies \cup NotFoundReplies
                              \cup ClosedReplies \cup {Ack} :
          RpcCompletes(t, r) /\ UNCHANGED <<reqVars, poolVars>>

SpecConcurrent == InitConcurrent /\ [][NextConcurrent]_vars

\* a connected client whose add_user / remove_user requests the proxy may
\* answer with any error, whether or not the user is there
InitRemote ==
    /\ running = NoTask
    /\ pool = AllFiles /\ InitSchemaState
    /\ InitRequestState
    /\ endpoint = "ready"
    /\ c_callers = 1
    /\ c_faults = RemoteErrors
    /\ c_host = "127.0.0.1"
    /\ c_state = Construct("127.0.0.1").state
    /\ c_target = Construct("127.0.0.1").target
    /\ InitClientState
    /\ LimiterInit(0, FALSE)
    /\ watched = "A"
    /\ InitLimiterState
    /\ RateLimiterInit(MaxRequests, MaxWindow)
    /\ r_watched = "X"
    /\ InitRateState

NextRemote ==
    \/ \E t \in Tasks, op \in UserOps, u \in Uuids : CallClient(t, op, u) /\ UNCHANGED <<reqVars, poolVars>>
    \/ \E t \in Tasks : UserOpBegin(t) /\ UNCHANGED <<reqVars, poolVars>>
    \/ \E t \in Tasks : ReadyResolves(t, "ready") /\ UNCHANGED <<reqVars, poolVars>>
    \/ \E t \in Tasks, r \in RemoteErrors \cup {Ack} : RpcCompletes(t, r) /\ UNCHANGED <<reqVars, poolVars>>

SpecRemote == InitRemote /\ [][NextRemote]_vars

\* an application that constructs a client with any host and, when it got
\* one, starts and closes it
InitConstruct ==
    /\ running = NoTask
    /\ pool = AllFiles /\ InitSchemaState
    /\ InitRequestState
    /\ endpoint \in {"ready", "timeout"}
    /\ c_callers = 1
    /\ c_faults = {}
    /\ c_host = "none"
    /\ c_state = "none"
    /\ c_target = "none"
    /\ InitClientState
    /\ LimiterInit(0, FALSE)
    /\ watched = "A"
    /\ InitLimiterState
    /\ RateLimiterInit(MaxRequests, MaxWindow)
    /\ r_watched = "X"
    /\ InitRateState

NextConstruct ==
    \/ \E h \in Hosts : NewClient(h) /\ UNCHANGED <<reqVars, poolVars>>
    \/ \E t \in Tasks, op \in {"start", "close"} : CallClient(t, op, "A") /\ UNCHANGED <<reqVars, poolVars>>
    \/ \E t \in Tasks : StartBegin(t) /\ UNCHANGED <<reqVars, poolVars>>
    \/ \E t \in Tasks : CloseBegin(t) /\ UNCHANGED <<reqVars, poolVars>>
    \/ \E t \in Tasks : CloseCompletes(t) /\ UNCHANGED <<reqVars, poolVars>>
    \/ \E t \in Tasks, o \in {"ready", "timeout"} : ReadyResolves(t, o) /\ UNCHANGED <<reqVars, poolVars>>
    \/ \E e \in {"ready", "timeout"} : EndpointChanges(e) /\ UNCHANGED <<reqVars, poolVars>>

SpecConstruct == InitConstruct /\ [][NextConstruct]_vars

\* the application serving POST /add_user and /remove_user: a rate limiter
\* that admits two calls per identity and window, and a client whose endpoint
\* is up or down
InitRequest ==
    /\ running = NoTask
    /\ pool = AllFiles /\ InitSchemaState
    /\ InitRequestState
    /\ RateLimiterInit(2, 1)
    /\ r_watched = "X"
    /\ InitRateState
    /\ endpoint \in {"ready", "timeout"}
    /\ c_callers = 1
    /\ c_faults = FaultReplies
    /\ c_host = "127.0.0.1"
    /\ c_state = Construct("127.0.0.1").state
    /\ c_target = Construct("127.0.0.1").target
    /\ InitClientState
    /\ LimiterInit(0, FALSE)
    /\ watched = "A"
    /\ InitLimiterState

NextRequest ==
    \/ \E q \in Tasks, p \in UserOps, k \in Keys :
          Arrive(q, p, r_watched, k) /\ UNCHANGED poolVars
    \/ \E t \in Tasks : AllowEnter(t) /\ UNCHANGED <<reqVars, poolVars>>
    \/ \E t \in Tasks : AllowAcquire(t) /\ UNCHANGED <<reqVars, poolVars>>
    \/ \E q \in Tasks : Dispatch(q) /\ UNCHANGED poolVars
    \/ \E q \in Tasks : VerifyApiKey(q) /\ UNCHANGED poolVars
    \/ \E q \in Tasks : Handler(q) /\ UNCHANGED poolVars
    \/ \E t \in Tasks : UserOpBegin(t) /\ UNCHANGED <<reqVars, poolVars>>
    \/ \E q \in Tasks, o \in {"ready", "timeout"} :
          ClientReady(q, o) /\ UNCHANGED poolVars
    \/ \E q \in Tasks, r \in AlreadyExistsReplies \cup NotFoundReplies
                              \cup FaultReplies \cup {Ack} :
          ClientReplied(q, r) /\ UNCHANGED poolVars

SpecRequest == InitRequest /\ [][NextRequest]_vars

\* the catalogs registration may find: none, some or all of the three files,
\* added in any order
Catalogs ==
    {p \in UNION {[1 .. n -> {SchemaFile(g).name : g \in 1 .. 3}] : n \in 0 .. 3} :
        \A i, j \in 1 .. Len(p) : i # j => p[i] # p[j]}

\* _register_proto_definitions called again and again on any such catalog
InitSchema ==
    /\ running = NoTask
    /\ pool \in Catalogs
    /\ s_pc = <<"idle", 0>>
    /\ s_error = "none"
    /\ s_before = << >>
    /\ InitRequestState
    /\ endpoint = "ready"
    /\ c_callers = 1
    /\ c_faults = FaultReplies
    /\ c_host = "127.0.0.1"
    /\ c_state = Construct("127.0.0.1").state
    /\ c_target = Construct("127.0.0.1").target
    /\ InitClientState
    /\ LimiterInit(0, FALSE)
    /\ watched = "A"
    /\ InitLimiterState
    /\ RateLimiterInit(MaxRequests, MaxWindow)
    /\ r_watched = "X"
    /\ InitRateState

SchemaFrame == UNCHANGED <<running, limVars, rateVars, clientVars, reqVars>>

NextSchema ==
    \/ CallRegister /\ SchemaFrame
    \/ \E g \in 1 .. 3 : Probe(g) /\ SchemaFrame
    \/ \E g \in 1 .. 3 : Build(g) /\ SchemaFrame

SpecSchema == InitSchema /\ [][NextSchema]_vars

\* a limiter of at most one session per identifier, in either mode or
\* disabled, whose callers also report suspicious activity of one identifier
InitSuspicious ==
    /\ running = NoTask
    /\ pool = AllFiles /\ InitSchemaState
    /\ InitRequestState
    /\ \E cfg \in 0 .. 1, lo \in BOOLEAN : (cfg = 0 => ~lo) /\ LimiterInit(cfg, lo)
    /\ watched = "A"
    /\ InitLimiterState
    /\ RateLimiterInit(MaxRequests, MaxWindow)
    /\ r_watched = "X"
    /\ InitRateState
    /\ endpoint = "ready"
    /\ c_callers = 1
    /\ c_faults = FaultReplies
    /\ c_host = "127.0.0.1"
    /\ c_state = Construct("127.0.0.1").state
    /\ c_target = Construct("127.0.0.1").target
    /\ InitClientState

NextSuspicious ==
    \/ \E t \in Tasks, u \in Uuids : CallStartSession(t, u) /\ UNCHANGED <<reqVars, poolVars>>
    \/ \E t \in Tasks, u \in Uuids : CallEndSession(t, u) /\ UNCHANGED <<reqVars, poolVars>>
    \/ \E t \in Tasks : CallMarkSuspicious(t, watched) /\ UNCHANGED <<reqVars, poolVars>>
    \/ \E t \in Tasks : LimiterEnter(t) /\ UNCHANGED <<reqVars, poolVars>>
    \/ \E t \in Tasks : LimiterAcquire(t) /\ UNCHANGED <<reqVars, poolVars>>
    \/ \E t \in Tasks : StartSessionBody(t) /\ UNCHANGED <<reqVars, poolVars>>
    \/ \E t \in Tasks : EndSessionBody(t) /\ UNCHANGED <<reqVars, poolVars>>
    \/ \E t \in Tasks : MarkSuspicious(t) /\ UNCHANGED <<reqVars, poolVars>>

SpecSuspicious == InitSuspicious /\ [][NextSuspicious]_vars

\* ------------------------------------------------ ConnectionLimiter: claims
Count(u) == Get(active, u, 0)
HardMode == enabled /\ ~log_only
LogOnlyMode == enabled /\ log_only
IsStart(e) == e.op = "start_session"
IsEnd(e) == e.op = "end_session"

\* C1: in hard-block mode no identifier's stored count (nor its number of
\* admitted sessions) ever exceeds max_connections, and of two start_session
\* calls for one identifier that follow each other with one slot left, the
\* first returns true and the second false.
C1_NoDoubleAdmit ==
    HardMode =>
        /\ \A u \in Uuids :
              Count(u) <= max_connections /\ sessions[u] <= max_connections
        /\ \A i \in 1 .. Len(lhist) - 1 :
              (/\ IsStart(lhist[i])
               /\ IsStart(lhist[i + 1])
               /\ lhist[i].before = max_connections - 1)
              => (lhist[i].ret = TRUE /\ lhist[i + 1].ret = FALSE)

\* two start_session(watched) calls raced for the last slot and both returned
C1_Witness ==
    /\ HardMode
    /\ raced = 2
    /\ Len(lhist) >= 2
    /\ lhist[Len(lhist) - 1].before = max_connections - 1
    /\ lhist[Len(lhist) - 1].ret = TRUE
    /\ lhist[Len(lhist)].ret = FALSE

\* C7: with accounting enabled (hard-block or log-only), the stored count of
\* every identifier equals its number of admitted sessions not yet ended.
C7_CountIsActiveSessions ==
    enabled => \A u \in Uuids : Count(u) = sessions[u]

\* C8: in hard-block mode start_session returns false exactly when the count
\* had reached max_connections, leaving the count unchanged, and otherwise
\* returns true and increments the count; a start_session that follows a
\* denial and one end_session returns true.
C8_HardBlock ==
    HardMode =>
        /\ \A i \in 1 .. Len(lhist) :
              IsStart(lhist[i]) =>
                  /\ lhist[i].ret = FALSE <=> lhist[i].before >= max_connections
                  /\ lhist[i].ret = FALSE => lhist[i].after = lhist[i].before
                  /\ lhist[i].ret = TRUE => lhist[i].after = lhist[i].before + 1
        /\ (/\ Len(lhist) = 3
            /\ IsStart(lhist[1]) /\ lhist[1].ret = FALSE
            /\ IsEnd(lhist[2])
            /\ IsStart(lhist[3]))
           => lhist[3].ret = TRUE

\* a denial, an end_session and an admission followed each other
C8_Witness ==
    /\ HardMode
    /\ Len(lhist) = 3
    /\ IsStart(lhist[1]) /\ lhist[1].ret = FALSE
    /\ IsEnd(lhist[2])
    /\ IsStart(lhist[3]) /\ lhist[3].ret = TRUE

\* C9: in log-only mode every start_session returns true; a call that finds
\* the count at max_connections or above logs exactly one limit-exceeded
\* warning, a call that finds it below logs nothing.
C9_LogOnly ==
    LogOnlyMode =>
        /\ \A i \in 1 .. Len(lhist) :
              IsStart(lhist[i]) =>
                  /\ lhist[i].ret = TRUE
                  /\ lhist[i].logged =
                        (IF lhist[i].before >= max_connections THEN 1 ELSE 0)
        /\ \A k \in 1 .. Len(warnings) :
              /\ warnings[k].event = "connection_limit_exceeded"
              /\ warnings[k].active >= max_connections

\* an over-limit call was admitted with a warning, after one that logged none
C9_Witness ==
    /\ LogOnlyMode
    /\ Len(lhist) >= 2
    /\ IsStart(lhist[Len(lhist) - 1]) /\ lhist[Len(lhist) - 1].logged = 0
    /\ IsStart(lhist[Len(lhist)]) /\ lhist[Len(lhist)].logged = 1
    /\ lhist[Len(lhist)].ret = TRUE
    /\ Len(warnings) >= 1 /\ warnings[Len(warnings)].uuid = watched

\* C12: the counter map never holds a zero or negative count: every stored
\* count is at least 1, an end_session that finds a count of 1 or no entry
\* leaves no entry behind, and one that finds more stores one less.
C12_NoZeroCount ==
    /\ \A u \in DOMAIN active : active[u] >= 1
    /\ \A i \in 1 .. Len(lhist) :
          (enabled /\ IsEnd(lhist[i])) =>
              lhist[i].after = (IF lhist[i].before <= 1 THEN 0
                                ELSE lhist[i].before - 1)
    /\ (/\ enabled
        /\ Len(lhist) >= 1
        /\ IsEnd(lhist[Len(lhist)])
        /\ lhist[Len(lhist)].before <= 1
        /\ \A t \in Tasks : l_uuid[t] = watched => lpc[t] \in {"idle", "pending"})
       => watched \notin DOMAIN active

\* the only session of watched was ended, which removed its entry, and then
\* end_session was called once more for the identifier without an entry,
\* while the other identifier keeps a count
C12_Witness ==
    /\ enabled
    /\ Len(lhist) = 3
    /\ IsStart(lhist[1]) /\ lhist[1].ret = TRUE
    /\ IsEnd(lhist[2]) /\ lhist[2].before = 1 /\ lhist[2].after = 0
    /\ IsEnd(lhist[3]) /\ lhist[3].before = 0 /\ lhist[3].after = 0
    /\ watched \notin DOMAIN active
    /\ DOMAIN active # {}

\* ------------------------------------------------------ RateLimiter: claims
\* allow(r_watched) calls that returned true with a timestamp in [t - W, t]
AdmittedIn(t) ==
    {i \in 1 .. Len(rhist) :
        /\ rhist[i].ret = TRUE
        /\ rhist[i].now >= t - window_seconds
        /\ rhist[i].now <= t}

\* the timestamps of h that are at most window_seconds older than now
StillFresh(h, now) == SelectSeq(h, LAMBDA ts : now - ts <= window_seconds)

\* C2: concurrent allow() calls are serialised: the lock is never held by a
\* suspended task, each call reads the list the previous call for the
\* identity wrote, no stored list is longer than max_requests, and at every
\* time t at most max_requests admitted calls have a timestamp in the
\* trailing window [t - window_seconds, t].
C2_AtomicWindow ==
    /\ rl_lock # NoTask => running = rl_lock
    /\ \A id \in DOMAIN hits : Len(hits[id]) <= max_requests
    /\ \A i \in 2 .. Len(rhist) : rhist[i].before = rhist[i - 1].after
    /\ \A t \in 0 .. MaxTime : Cardinality(AdmittedIn(t)) <= max_requests

\* calls for one identity waited for each other; the window filled up and a
\* call was denied
C2_Witness ==
    /\ r_raced
    /\ max_requests >= 1
    /\ Len(Get(hits, r_watched, << >>)) = max_requests
    /\ \E i \in 1 .. Len(rhist) : rhist[i].ret = FALSE

\* C3 as claimed: every call, denied ones included, leaves its own timestamp
\* as the newest entry of the stored list.
C3_RecordsEveryCall ==
    \A i \in 1 .. Len(rhist) :
        /\ Len(rhist[i].after) >= 1
        /\ rhist[i].after[Len(rhist[i].after)] = rhist[i].now

\* C3 as the code has it: every call prunes the timestamps older than
\* window_seconds and returns true exactly when the remaining timestamps plus
\* the new one number at most max_requests; the new timestamp is stored only
\* by a call that returns true, a denied call stores the pruned list as is.
C3_RecordsAdmittedOnly ==
    \A i \in 1 .. Len(rhist) :
        LET e == rhist[i]
            fresh == StillFresh(e.before, e.now)
        IN /\ e.ret = (Len(fresh) + 1 <= max_requests)
           /\ e.after = IF e.ret THEN Append(fresh, e.now) ELSE fresh

\* one call was denied and stored no timestamp, another one pruned an expired
\* timestamp and was admitted
C3_Witness ==
    /\ \E i \in 1 .. Len(rhist) :
          rhist[i].ret = FALSE /\ rhist[i].after = rhist[i].before
    /\ \E i \in 1 .. Len(rhist) :
          /\ rhist[i].ret = TRUE
          /\ Len(StillFresh(rhist[i].before, rhist[i].now)) < Len(rhist[i].before)

\* every call made so far for r_watched falls inside one window
OneWindow ==
    \A i \in 1 .. Len(rhist) : rhist[i].now - rhist[1].now <= window_seconds

\* C10: of the allow(X) calls made inside one window the first max_requests
\* return true and all later ones false, whatever is called for other
\* identities.
C10_FirstNAdmitted ==
    OneWindow => \A i \in 1 .. Len(rhist) : rhist[i].ret = (i <= max_requests)

\* max_requests calls were admitted and the next one denied inside one
\* window, at different clock readings, while another identity has hits too
C10_Witness ==
    /\ max_requests >= 2
    /\ OneWindow
    /\ Len(rhist) = max_requests + 1
    /\ rhist[Len(rhist)].ret = FALSE
    /\ rhist[Len(rhist)].now > rhist[1].now
    /\ \E id \in DOMAIN hits : id # r_watched /\ Len(hits[id]) >= 1

\* C11: with max_requests >= 1, the allow(X) call that follows a denied one
\* more than window_seconds later returns true, whatever was denied before;
\* a stored timestamp exactly window_seconds old is not pruned: it stays in
\* the list and counts against the limit.
C11_WindowExpiry ==
    /\ \A i \in 1 .. Len(rhist) - 1 :
          (/\ max_requests >= 1
           /\ rhist[i].ret = FALSE
           /\ rhist[i + 1].now > rhist[i].now + window_seconds)
          => rhist[i + 1].ret = TRUE
    /\ \A i \in 1 .. Len(rhist) :
          LET e == rhist[i]
              edge == SelectSeq(e.before, LAMBDA ts : e.now - ts = window_seconds)
          IN /\ \A k \in 1 .. Len(edge) :
                   \E j \in 1 .. Len(e.after) : e.after[j] = edge[k]
             /\ Len(edge) >= max_requests => e.ret = FALSE

\* an identity was denied, came back after the window had passed and was
\* admitted; and a call was denied by a timestamp exactly window_seconds old
C11_Witness ==
    /\ max_requests >= 1
    /\ \E i \in 1 .. Len(rhist) - 1 :
          /\ rhist[i].ret = FALSE
          /\ rhist[i + 1].now > rhist[i].now + window_seconds
          /\ rhist[i + 1].ret = TRUE
    /\ \E i \in 1 .. Len(rhist) :
          /\ rhist[i].ret = FALSE
          /\ \A k \in 1 .. Len(rhist[i].before) :
                rhist[i].now - rhist[i].before[k] = window_seconds

\* ------------------------------------------------------- XrayClient: claims
\* the call found the endpoint ready and the proxy handled its request
Served(e) == e.ready = "ready" /\ e.reply.kind \in {"ack", "benign"}

\* C4 as claimed: a start() that raised the unavailable error leaves the
\* client without a connection (so that a later start() connects again).
C4_FailedStartDisconnects ==
    (/\ Len(chist) >= 1
     /\ chist[Len(chist)].op = "start"
     /\ chist[Len(chist)].ret = "XrayClientError")
    => channel = 0

\* C5: when the proxy serves both of two add_user(U) calls that follow each
\* other and U was absent before the first, the first returns true, the
\* second false, neither raises, and the proxy holds U exactly once.
C5_AddTwice ==
    (/\ Len(chist) = 2
     /\ chist[1].op = "add_user" /\ chist[2].op = "add_user"
     /\ Served(chist[1]) /\ Served(chist[2])
     /\ ~chist[1].present)
    => /\ chist[1].ret = "True"
       /\ chist[2].ret = "False"
       /\ Occurrences(c_watched) = 1

\* the second add_user was answered with the textual already-exists report
C5_Witness ==
    /\ Len(chist) = 2
    /\ chist[1].op = "add_user" /\ chist[1].ret = "True" /\ ~chist[1].present
    /\ chist[2].op = "add_user" /\ chist[2].ret = "False"
    /\ chist[2].reply.code = "UNKNOWN"
    /\ Occurrences(c_watched) = 1

\* C6: a served remove_user(U) for a U the proxy does not hold returns false
\* and leaves the proxy's users as they were; a served remove_user(U) right
\* after an add_user(U) that returned true returns true.
C6_RemoveAbsent ==
    /\ \A i \in 1 .. Len(chist) :
          (chist[i].op = "remove_user" /\ Served(chist[i]) /\ ~chist[i].present)
          => (chist[i].ret = "False" /\ ~chist[i].changed)
    /\ (/\ Len(chist) = 2
        /\ chist[1].op = "add_user" /\ chist[1].ret = "True"
        /\ chist[2].op = "remove_user" /\ Served(chist[2]))
       => (chist[2].ret = "True" /\ Occurrences(c_watched) = 0)

\* an added user was removed, and a second remove_user was answered with the
\* textual not-found report
C6_Witness ==
    /\ Len(chist) = 2
    /\ chist[1].op = "remove_user" /\ chist[1].ret = "True" /\ chist[1].present
    /\ chist[2].op = "remove_user" /\ chist[2].ret = "False"
    /\ ~chist[2].present /\ ~chist[2].changed
    /\ chist[2].reply.code = "UNKNOWN"

IsHealth(e) == e.op = "check_health"

\* C13: check_health() called on a client that is not being used by another
\* call (never started, started, after a failed start, closed) returns a
\* boolean and raises nothing: true only when the readiness wait of this call
\* succeeded, false when the wait timed out or was refused.
C13_HealthIsBoolean ==
    \A i \in 1 .. Len(chist) :
        IsHealth(chist[i]) =>
            /\ chist[i].ret \in {"True", "False"}
            /\ chist[i].ret = "True" => chist[i].ready = "ready"
            /\ chist[i].ready # "ready" => chist[i].ret = "False"

\* start() failed, and a check_health() on the connection it left behind was
\* refused and returned false
C13_Witness ==
    /\ Len(chist) = 2
    /\ chist[1].op = "start" /\ chist[1].ret = "XrayClientError"
    /\ IsHealth(chist[2]) /\ chist[2].ret = "False"
    /\ chist[2].ready = "reject" /\ ~chist[2].created

\* word occurs in text when the case of the letters of text is ignored
HasWord(text, word) ==
    \E i \in 0 .. Len(text) - Len(word) :
        \A j \in 1 .. Len(word) : LowerChar(text[i + j]) = word[j]

\* the call sent its request and the proxy answered it
Answered(e) == e.reply.kind \in {"ack", "error"}

\* C14: add_user returns true for an acknowledgement and for nothing else,
\* false for an error with the already-exists status code or with "exist"
\* (in any case) in its detail text, and raises the client error for every
\* other error, with the remote detail text as its message.
C14_AddUserClassifies ==
    \A i \in 1 .. Len(chist) :
        LET e == chist[i]
        IN (e.op = "add_user" /\ Answered(e)) =>
              /\ e.ret \in {"True", "False", "XrayClientError"}
              /\ e.ret = "True" <=> e.reply.kind = "ack"
              /\ e.ret = "False" <=>
                    /\ e.reply.kind = "error"
                    /\ \/ e.reply.code = "ALREADY_EXISTS"
                       \/ HasWord(e.reply.details, N_exist)
              /\ (e.ret = "XrayClientError" /\ e.reply.details # T_empty)
                    => e.msg = e.reply.details

\* an add_user for an absent user was answered with an error that is not an
\* already-exists report and raised it; the next one was answered with upper
\* case "EXISTS" under another status code and returned false
C14_Witness ==
    /\ Len(chist) = 2
    /\ chist[1].op = "add_user" /\ chist[1].ret = "XrayClientError"
    /\ chist[1].reply.code = "NOT_FOUND" /\ chist[1].msg = T_notfound
    /\ chist[2].op = "add_user" /\ chist[2].ret = "False"
    /\ chist[2].reply.code = "UNAVAILABLE" /\ chist[2].reply.details = T_exists
    /\ ~chist[2].present

\* C15: remove_user returns true for an acknowledgement and for nothing else,
\* false for an error with the not-found or the failed-precondition status
\* code or with "not found" (in any case) in its detail text, and raises the
\* client error for every other error, with the remote detail text as its
\* message.
C15_RemoveUserClassifies ==
    \A i \in 1 .. Len(chist) :
        LET e == chist[i]
        IN (e.op = "remove_user" /\ Answered(e)) =>
              /\ e.ret \in {"True", "False", "XrayClientError"}
              /\ e.ret = "True" <=> e.reply.kind = "ack"
              /\ e.ret = "False" <=>
                    /\ e.reply.kind = "error"
                    /\ \/ e.reply.code \in {"NOT_FOUND", "FAILED_PRECONDITION"}
                       \/ HasWord(e.reply.details, N_notfound)
              /\ (e.ret = "XrayClientError" /\ e.reply.details # T_empty)
                    => e.msg = e.reply.details

\* a remove_user was answered with a failed precondition and returned false;
\* the next one was answered with an already-exists error and raised it
C15_Witness ==
    /\ Len(chist) = 2
    /\ chist[1].op = "remove_user" /\ chist[1].ret = "False"
    /\ chist[1].reply.code = "FAILED_PRECONDITION"
    /\ chist[1].reply.details = T_boom
    /\ chist[2].op = "remove_user" /\ chist[2].ret = "XrayClientError"
    /\ chist[2].reply.code = "ALREADY_EXISTS" /\ chist[2].msg = T_exists

\* add_user, remove_user and check_health: the calls that use the connection
UsesConnection(op) == op \in UserOps \cup {"check_health"}

\* close() never fails, and a request is in flight only on the connection
\* the client holds, which is open
ClosedThenReconnects ==
    /\ \A i \in 1 .. Len(chist) : chist[i].op = "close" => chist[i].ret = "None"
    /\ \A t \in Tasks :
          cpc[t] = "rpc" => (c_chan[t] = channel /\ conns[channel] = "open")

\* when close() returns the client holds no connection and every connection
\* it made is closed
CloseLeavesNoConnection ==
    \A t \in Tasks :
        (c_op[t] = "close" /\ cpc[t] # "idle" /\ cpc'[t] = "idle")
        => (channel' = 0 /\ \A c \in 1 .. Len(conns') : conns'[c] = "closed")

\* a request is sent only at the end of a successful readiness wait on the
\* connection the client holds
RequestAfterReady ==
    \A t \in Tasks :
        (cpc[t] # "rpc" /\ cpc'[t] = "rpc")
        => /\ cpc[t] = "wait_ready" /\ c_chan[t] = channel
           /\ conns[channel] = "open" /\ endpoint = "ready"

\* a close() that finds no connection ends at once and changes nothing
CloseWithoutConnection ==
    \A t \in Tasks :
        (/\ cpc[t] = "pending" /\ c_op[t] = "close"
         /\ channel = 0
         /\ cpc'[t] # cpc[t])
        => /\ cpc'[t] = "idle"
           /\ UNCHANGED <<channel, stub, conns, remote, endpoint>>

\* a call that uses the connection and finds none goes through start(): it
\* makes a new connection with its request callables and waits for readiness
UseWithoutConnection ==
    \A t \in Tasks :
        (/\ cpc[t] = "pending" /\ UsesConnection(c_op[t])
         /\ channel = 0
         /\ cpc'[t] # cpc[t])
        => /\ conns' = Append(conns, "open")
           /\ channel' = Len(conns') /\ stub' = Len(conns')
           /\ cpc'[t] = "wait_ready" /\ c_chan'[t] = channel'
           /\ c_stage'[t] = "start"

\* C16: close() is idempotent (on a client without a connection, never
\* started or already closed, it changes nothing and does not fail), and the
\* add_user, remove_user or check_health call that follows a close() goes
\* through start() again: a new connection, a readiness wait, and only then a
\* request.
C16_CloseThenReconnect ==
    /\ []ClosedThenReconnects
    /\ [][/\ CloseWithoutConnection /\ CloseLeavesNoConnection
           /\ UseWithoutConnection /\ RequestAfterReady]_vars

\* a connection was closed, and the add_user after the close() made a new
\* connection and was acknowledged on it
C16_Witness ==
    /\ conns = <<"closed", "open">>
    /\ channel = 2 /\ stub = 2
    /\ Len(chist) = 2
    /\ chist[1].op = "close"
    /\ chist[2].op = "add_user" /\ chist[2].created /\ chist[2].ret = "True"

\* of two start() calls with no close() between them the second makes no
\* connection and does not fail; no connection but the one held is open
StartedOnce ==
    /\ (Len(chist) = 2 /\ chist[1].op = "start" /\ chist[2].op = "start")
       => (~chist[2].created /\ chist[2].ret = "None")
    /\ \A c \in 1 .. Len(conns) : c # channel => conns[c] # "open"

\* a start() that finds a connection ends at once and changes nothing
StartWithConnection ==
    \A t \in Tasks :
        (/\ cpc[t] = "pending" /\ c_op[t] = "start"
         /\ channel # 0
         /\ cpc'[t] # cpc[t])
        => /\ cpc'[t] = "idle"
           /\ chist'[Len(chist')].op = "start" /\ chist'[Len(chist')].ret = "None"
           /\ UNCHANGED <<channel, stub, conns, remote, endpoint>>

\* a connection is made only while none is held, one at a time
MadeWhenNoneHeld ==
    conns' # conns /\ Len(conns') # Len(conns)
    => (channel = 0 /\ Len(conns') = Len(conns) + 1 /\ channel' = Len(conns'))

\* the connection held and its request callables change only when a
\* connection is made or a close() ends
HeldUntilClose ==
    (channel # 0 /\ <<channel, stub>>' # <<channel, stub>>)
    => (channel' = 0 /\ stub' = stub
        /\ \E t \in Tasks : c_op[t] = "close" /\ cpc[t] = "closing")

\* C17: start() on a client that holds a connection makes no new connection,
\* leaves the connection and the request callables as they are and does not
\* fail; start() calls without a close() between them make one connection.
C17_StartIdempotent ==
    /\ []StartedOnce
    /\ [][StartWithConnection /\ MadeWhenNoneHeld /\ HeldUntilClose]_vars

\* start() made a connection that became ready, and a second start() left it
\* alone
C17_Witness ==
    /\ conns = <<"open">> /\ channel = 1 /\ stub = 1
    /\ Len(chist) = 2
    /\ chist[1].op = "start" /\ chist[1].ret = "None" /\ chist[1].created
    /\ chist[1].ready = "ready"
    /\ chist[2].op = "start" /\ chist[2].ret = "None" /\ ~chist[2].created

\* C18: a client object exists only for a host of the loopback set, and a
\* connection only for a client that exists: after XrayClient(...) with any
\* other host there is no object and no connection was made.
C18_LoopbackOnly ==
    /\ c_host \notin {"none", "127.0.0.1", "localhost", "::1"} => c_state = "failed"
    /\ c_state = "made" => c_target \in {"127.0.0.1", "localhost", "::1"}
    /\ c_state # "made" => (c_target = "none" /\ channel = 0 /\ conns = << >>)
    /\ \A t \in Tasks : cpc[t] # "idle" => c_state = "made"

\* XrayClient("203.0.113.5", ...) was called and raised: there is no object
\* and no connection
C18_Witness ==
    /\ c_host = "203.0.113.5"
    /\ c_state = "failed" /\ c_target = "none"
    /\ channel = 0 /\ conns = << >>

\* the inbound calls in progress and the ones answered last
Inbound == {req[q] : q \in Tasks} \cup {last[i] : i \in 1 .. Len(last)}

\* the steps an inbound call may have gone through, in order
Trails ==
    {<< >>, <<"denied">>, <<"admitted">>, <<"admitted", "forbidden">>,
     <<"admitted", "authenticated">>,
     <<"admitted", "authenticated", "client">>,
     <<"admitted", "authenticated", "client", "raised">>,
     <<"admitted", "authenticated", "client", "answered">>}

\* C19: every inbound call to /add_user or /remove_user meets the rate
\* limiter first, the API-key check second and the management client last: a
\* call answered 429 or 403, or made without the right key, made no client
\* call, and every add_user / remove_user running on the client belongs to an
\* inbound call that was admitted and authenticated.
C19_LimiterAuthClient ==
    /\ \A e \in Inbound :
          /\ e.trail \in Trails
          /\ e.status \in {"429", "403"} =>
                \A i \in 1 .. Len(e.trail) : e.trail[i] # "client"
          /\ e.status = "429" <=> e.trail = <<"denied">>
          /\ e.status = "403" <=> e.trail = <<"admitted", "forbidden">>
          /\ e.key # ApiKey =>
                /\ \A i \in 1 .. Len(e.trail) : e.trail[i] # "client"
                /\ e.stage = "done" => e.status \in {"429", "403"}
    /\ \A t \in Tasks :
          cpc[t] # "idle" =>
              \E q \in Tasks :
                  /\ req[q].slot = t /\ req[q].stage = "client"
                  /\ req[q].key = ApiKey
                  /\ req[q].trail = <<"admitted", "authenticated", "client">>
                  /\ c_op[t] = req[q].path

\* while an admitted and authenticated call has its request at the proxy, a
\* call with a wrong key was answered 403 and the next call was denied 429
C19_Witness ==
    /\ Len(last) = 2
    /\ last[1].status = "403" /\ last[1].key = "wrong"
    /\ last[2].status = "429" /\ last[2].key = ApiKey
    /\ \E q \in Tasks : req[q].stage = "client" /\ cpc[req[q].slot] = "rpc"

\* the six message schemas the client uses
SixMessages == UNION {SchemaFile(g).messages : g \in 1 .. 3}

\* the number of files in p that define message m
Definitions(p, m) == Cardinality({i \in 1 .. Len(p) : m \in Defines(p[i])})

\* C20: _register_proto_definitions, called any number of times on a catalog
\* that holds none, some or all of the three schema files, raises nothing;
\* when a call has returned the catalog holds each of the six messages
\* exactly once, and a call that found all of them left the catalog as it was.
C20_RegistrationIdempotent ==
    /\ s_error = "none"
    /\ \A m \in SixMessages : Definitions(pool, m) <= 1
    /\ (s_pc = <<"idle", 0>> /\ Len(s_before) >= 1)
       => \A m \in SixMessages : Definitions(pool, m) = 1
    /\ (Len(s_before) >= 1
        /\ \A m \in SixMessages : Definitions(s_before[Len(s_before)], m) = 1)
       => pool = s_before[Len(s_before)]

\* a first call found only the file of the User message and added the other
\* two, and a second call has returned without changing anything
C20_Witness ==
    /\ s_pc = <<"idle", 0>>
    /\ Len(s_before) = 2
    /\ s_before[1] = <<"xray_common_protocol.proto">>
    /\ s_before[2] = <<"xray_common_protocol.proto", "xray_proxy_vless.proto",
                       "xray_proxyman_command.proto">>
    /\ pool = s_before[2]

\* C21: with accounting disabled (a configured max_connections of 0 or
\* less) every start_session returns true, no call finds, leaves or logs
\* anything, the lock is never taken and the counter map stays empty.
C21_DisabledAdmitsAll ==
    max_connections = 0 =>
        /\ ~enabled
        /\ active = << >>
        /\ warnings = << >>
        /\ lim_lock = NoTask /\ running = NoTask
        /\ \A i \in 1 .. Len(lhist) :
              /\ IsStart(lhist[i]) => lhist[i].ret = TRUE
              /\ lhist[i].before = 0 /\ lhist[i].after = 0
              /\ lhist[i].logged = 0

\* with accounting disabled three sessions of watched were admitted one
\* after the other while an end_session for the other identifier is pending
C21_Witness ==
    /\ max_connections = 0 /\ ~enabled
    /\ Len(lhist) = 3
    /\ \A i \in 1 .. 3 : IsStart(lhist[i]) /\ lhist[i].ret = TRUE
    /\ \E t \in Tasks : lpc[t] = "pending" /\ l_op[t] = "end_session"
                        /\ l_uuid[t] # watched
    /\ active = << >>

IsMark(e) == e.op = "mark_suspicious"

\* a mark_suspicious call ends in this step
MarkEnds(t) ==
    lpc[t] = "pending" /\ l_op[t] = "mark_suspicious" /\ lpc'[t] = "idle"

\* the step of mark_suspicious(u) adds one suspicious_activity warning for u
\* and leaves the counter map, the lock and the other calls as they were
MarkOnlyLogs ==
    \A t \in Tasks :
        MarkEnds(t) =>
            /\ active' = active
            /\ lim_lock' = lim_lock
            /\ warnings' = Append(warnings,
                   [event |-> "suspicious_activity", uuid |-> l_uuid[t]])
            /\ \A o \in Tasks \ {t} :
                  lpc'[o] = lpc[o] /\ l_op'[o] = l_op[o] /\ l_uuid'[o] = l_uuid[o]

\* every start_session decides by the stored count alone, and every
\* completed mark_suspicious found and left the same count and logged once
MarkLeavesDecisions ==
    \A i \in 1 .. Len(lhist) :
        /\ IsMark(lhist[i]) =>
              (lhist[i].after = lhist[i].before /\ lhist[i].logged = 1)
        /\ IsStart(lhist[i]) =>
              lhist[i].ret = (IF ~enabled THEN TRUE
                              ELSE IF lhist[i].before >= max_connections
                                   THEN log_only
                              ELSE TRUE)
        /\ (i > 1 /\ IsStart(lhist[i])) => lhist[i].before = lhist[i - 1].after

\* C22: mark_suspicious(id) records one warning event and leaves the counter
\* map unchanged for every identifier, whatever start_session and
\* end_session calls are pending around it; the start_session after it finds
\* the count the call before mark_suspicious left and decides by it.
C22_MarkSuspiciousFrame ==
    /\ []MarkLeavesDecisions
    /\ [][MarkOnlyLogs]_vars

\* in hard-block mode a session of watched was admitted, mark_suspicious was
\* called for it while the other identifier holds a session, and the next
\* start_session was denied as it would have been without the mark
C22_Witness ==
    /\ HardMode
    /\ Len(lhist) = 3
    /\ IsStart(lhist[1]) /\ lhist[1].ret = TRUE
    /\ IsMark(lhist[2]) /\ lhist[2].before = 1
    /\ IsStart(lhist[3]) /\ lhist[3].ret = FALSE
    /\ \E u \in DOMAIN active : u # watched
    /\ Len(warnings) = 2 /\ warnings[1].event = "suspicious_activity"

\* an add_user or remove_user call begins with a readiness wait and nothing
\* else: through start(), on a connection it makes, when none is held, and
\* on the connection held otherwise
ReadinessFirst ==
    \A t \in Tasks :
        (cpc[t] = "pending" /\ c_op[t] \in UserOps /\ cpc'[t] # "pending")
        => /\ cpc'[t] = "wait_ready"
           /\ remote' = remote
           /\ IF channel = 0
              THEN /\ conns' = Append(conns, "open")
                   /\ channel' = Len(conns') /\ c_chan'[t] = Len(conns')
                   /\ c_created'[t]
              ELSE /\ UNCHANGED <<conns, channel>>
                   /\ c_chan'[t] = channel
                   /\ ~c_created'[t]

\* the request of a call goes out when the call's own readiness wait has
\* succeeded, on the connection that wait was about
SentAfterOwnCheck ==
    \A t \in Tasks :
        (c_op[t] \in UserOps /\ cpc[t] # "rpc" /\ cpc'[t] = "rpc")
        => /\ cpc[t] = "wait_ready"
           /\ endpoint = "ready"
           /\ conns[c_chan[t]] = "open"
           /\ c_chan'[t] = c_chan[t]
           /\ remote' = remote

\* a call whose readiness wait does not succeed ends there: nothing is sent
\* and the proxy's user list stays as it was
FailedCheckEndsCall ==
    \A t \in Tasks :
        (/\ c_op[t] \in UserOps /\ cpc[t] = "wait_ready"
         /\ cpc'[t] \notin {"wait_ready", "rpc"})
        => /\ cpc'[t] = "idle"
           /\ endpoint \in {"timeout", "reject"}
           /\ remote' = remote
           /\ c_uuid[t] = c_watched =>
                 /\ Len(chist') > 0
                 /\ chist'[Len(chist')].op = c_op[t]
                 /\ chist'[Len(chist')].ret = "XrayClientError"
                 /\ chist'[Len(chist')].ready = endpoint

\* the recorded calls: one that was answered had a successful wait, and one
\* whose wait timed out or was rejected raised XrayClientError with no reply
CheckedCallsOnly ==
    \A i \in 1 .. Len(chist) :
        chist[i].op \in UserOps =>
            /\ chist[i].reply.kind # "none" => chist[i].ready = "ready"
            /\ chist[i].ready \in {"timeout", "reject"} =>
                  /\ chist[i].ret = "XrayClientError"
                  /\ chist[i].reply = NoReply
                  /\ ~chist[i].changed

\* C23: in every add_user and remove_user call the request is sent only
\* after a readiness wait on the connection succeeded within that call
\* (start() when no connection is held, re-validation otherwise); when the
\* wait times out or is rejected the call raises XrayClientError and sends
\* no request.
C23_RequestOnlyAfterReady ==
    /\ []CheckedCallsOnly
    /\ [][ReadinessFirst /\ SentAfterOwnCheck /\ FailedCheckEndsCall]_vars

\* an add_user that went through start() and timed out, then an add_user
\* that re-validated the connection left behind and was acknowledged
C23_Witness ==
    /\ Len(chist) = 2
    /\ chist[1].op = "add_user" /\ chist[1].created
    /\ chist[1].ready = "timeout" /\ chist[1].ret = "XrayClientError"
    /\ chist[2].op = "add_user" /\ ~chist[2].created
    /\ chist[2].ready = "ready" /\ chist[2].reply = Ack
    /\ chist[2].changed

\* every connection the client made is the one it references or is closed
OwnsAtMostOne ==
    \A c \in 1 .. Len(conns) : c # channel => conns[c] = "closed"

\* a request goes out on a connection no close() has touched
IssuedOnOpen ==
    \A t \in Tasks :
        (cpc[t] # "rpc" /\ cpc'[t] = "rpc") => conns'[c_chan'[t]] = "open"

\* C24: under any interleaving of start(), close(), add_user(),
\* remove_user() and check_health() calls on one client, every connection
\* the client made is the one it references or has been closed, and no
\* request is issued on a connection for which close() has begun.
C24_OneOpenConnection ==
    /\ []OwnsAtMostOne
    /\ [][IssuedOnOpen]_vars

====
